---- MODULE Spec2Model ----
(***************************************************************************)
(* Model of scripts/plot_results.py: the Celero recordTable reader         *)
(* (read_celero_recordTable, parse_celero_recordTable_header) and the      *)
(* listing helpers (list_recordTable_groups, list_recordTable_attribute).  *)
(*                                                                         *)
(* A text line is modelled by the tuple of its comma-separated fields      *)
(* (what line.strip("\n").split(',') yields): the empty line is <<"">>.    *)
(* A float is modelled by its value in tenths (float("1.5") is 15).        *)
(***************************************************************************)
EXTENDS Integers, Sequences, FiniteSets, TLC

VARIABLES
    pc,            \* where main stands: "reading", "returned", "raised", "groups", "backends"
    infile,        \* the lines of the file consumed so far by `for line in infile`
    state,         \* read_celero_recordTable locals
    group,
    group_name,
    data_sizes,
    other_fields,
    split_start,
    split_end,
    output,
    results,       \* main: the list returned by the reader
    asked,         \* main: the attribute asked of list_recordTable_attribute
    listed,        \* main: the outcome of the listing helper that was called
    args,          \* main: the parsed command line
    csv_files,     \* import_directory: the files of the directory, each its lines
    groups,        \* main: the groups the plot loop goes through
    visited,       \* main: how many of them the loop has taken
    plots,         \* the plots shown so far, each with the records it was given
    error          \* main: the exception that ended it (None: none)

\* the variables of main and import_directory beyond the reader's
mainvars == <<args, csv_files, groups, visited, plots, error>>

vars == <<pc, infile, state, group, group_name, data_sizes, other_fields,
          split_start, split_end, output, results, asked, listed, mainvars>>

-----------------------------------------------------------------------------
(* Bounds of the model *)

\* longest file (in lines) read under Spec
MaxLines == 4

\* longest file (in lines) read under SpecSections
MaxSectionLines == 7

\* longest file (in lines) read under SpecTruncated
MaxTruncatedLines == 5

\* longest file (in lines) read under SpecBlankRuns
MaxBlankRunLines == 7

\* most lines, over all its files, of a directory read under SpecImport
MaxImportLines == 6

\* most files of such a directory
MaxFiles == 2

\* longest record list handed to the listing helpers under SpecLists
MaxRecords == 3

-----------------------------------------------------------------------------
(* class read_state *)

start == 0
header == 1
result_row == 2
finished == 3

-----------------------------------------------------------------------------
(* Strings and the built-in conversions applied to them *)

\* The strings of the model in the order Python compares str values
\* (code point by code point: '.' < digits < upper case < '_' < lower case).
StrOrder ==
    << "", "1.5", "128", "2.5", "256", "3.5", "AF_DEVICE", "AF_PLATFORM",
       "Baseline", "CUDA", "OpenCL", "conv_f32", "cpu", "fast", "gpu",
       "sort_f64" >>

StrRank(s) == CHOOSE i \in 1..Len(StrOrder) : StrOrder[i] = s

\* a < b on str
StrLess(a, b) == StrRank(a) < StrRank(b)

\* str.isdigit(): non-empty and every character a decimal digit
isdigit(x) == x \in {"128", "256"}

\* int(x) for a string of digits
int(x) == CASE x = "128" -> 128
            [] x = "256" -> 256

\* float(x) succeeds (otherwise it raises ValueError)
IsFloat(x) == x \in {"1.5", "2.5", "3.5", "128", "256"}

\* float(x), in tenths
float(x) == CASE x = "1.5" -> 15
              [] x = "2.5" -> 25
              [] x = "3.5" -> 35
              [] x = "128" -> 1280
              [] x = "256" -> 2560

Min(a, b) == IF a < b THEN a ELSE b

\* s[a:b] of a Python list, for 0 <= a, 0 <= b (indices clamp to len(s))
Slice(s, a, b) ==
    LET hi == Min(b, Len(s))
    IN  IF a >= hi THEN << >> ELSE [i \in 1..(hi - a) |-> s[a + i]]

\* filter(lambda x: x != "", line)
FilterEmpty(line) == SelectSeq(line, LAMBDA x : x # "")

\* dict(zip(keys, vals)): zip stops at the shorter list, a repeated key keeps
\* its last value
DictZip(keys, vals) ==
    LET n == Min(Len(keys), Len(vals))
    IN  [k \in {keys[i] : i \in 1..n} |->
            vals[CHOOSE i \in 1..n : /\ keys[i] = k
                                     /\ \A j \in 1..n : keys[j] = k => j <= i]]

\* sorted(set(xs)) for a list of str
RECURSIVE SortedSet(_)
SortedSet(S) ==
    IF S = {} THEN << >>
    ELSE LET m == CHOOSE x \in S : \A y \in S : ~StrLess(y, x)
         IN  <<m>> \o SortedSet(S \ {m})

Range(s) == {s[i] : i \in 1..Len(s)}

-----------------------------------------------------------------------------
(* Files: the lines a file may hold *)

\* an empty line, and a line made only of commas
EmptyLine == <<"">>
CommaLine == <<"", "">>

\* group_name0,...
GroupLineA == <<"conv_f32", "">>
GroupLineB == <<"sort_f64">>

\* '',extra_0,...,extraN,size0,...,sizeN
HeaderLine == <<"", "AF_PLATFORM", "128", "256">>
\* a header with a non-numeric token between two sizes
HeaderMixed == <<"", "128", "AF_PLATFORM", "256">>

\* benchmark,extra0,...,extraN,time0,...,timeN
RowLine == <<"cpu", "CUDA", "1.5", "2.5">>
\* ... with an empty extra-data value
RowEmptyField == <<"gpu", "", "1.5", "2.5">>
\* ... with a time missing, with every column but the name missing
RowShort == <<"Baseline", "OpenCL", "2.5">>
RowNameOnly == <<"gpu">>
\* ... with one column too many
RowLong == <<"cpu", "CUDA", "1.5", "2.5", "3.5">>
\* ... with a time that is no float
RowBadTime == <<"cpu", "OpenCL", "1.5", "fast">>

Lines ==
    { EmptyLine, CommaLine, GroupLineA, GroupLineB, HeaderLine, HeaderMixed,
      RowLine, RowEmptyField, RowShort, RowNameOnly, RowLong, RowBadTime }

\* the lines of the longer files of SpecSections
SectionLines == { EmptyLine, GroupLineA, HeaderLine, RowLine, RowBadTime }

\* the lines of the files of SpecTruncated
TruncatedLines == { EmptyLine, GroupLineA, HeaderLine, RowLine, RowNameOnly }

\* the lines of the files of SpecBlankRuns
BlankRunLines == { EmptyLine, CommaLine, GroupLineB, HeaderLine, RowLine }

\* the lines of the files of SpecImport
ImportLines == { EmptyLine, HeaderLine, RowLine }

\* the attribute names asked of list_recordTable_attribute
Attributes == { "AF_PLATFORM", "AF_DEVICE" }

-----------------------------------------------------------------------------
(* parse_celero_recordTable_header *)

\* variant: split_start forgets the benchmark-name column
parse_celero_recordTable_header_no_name(header_row) ==
    LET digits == SelectSeq(header_row, isdigit)
        others == SelectSeq(SelectSeq(header_row, LAMBDA x : ~isdigit(x)),
                            LAMBDA x : x # "")
        s_start == Len(others)
        s_end == s_start + Len(digits)
    IN  [ data_sizes   |-> [i \in 1..Len(digits) |-> int(digits[i])],
          other_fields |-> others,
          split_start  |-> s_start,
          split_end    |-> s_end ]

parse_celero_recordTable_header(header_row) ==
    LET digits == SelectSeq(header_row, isdigit)
        others == SelectSeq(SelectSeq(header_row, LAMBDA x : ~isdigit(x)),
                            LAMBDA x : x # "")
        s_start == Len(others) + 1
        s_end == s_start + Len(digits)
    IN  [ data_sizes   |-> [i \in 1..Len(digits) |-> int(digits[i])],
          other_fields |-> others,
          split_start  |-> s_start,
          split_end    |-> s_end ]

-----------------------------------------------------------------------------
(* read_celero_recordTable: the locals as one record R, the loop body as   *)
(* ProcessLine                                                             *)

\* group_name is bound by the first group ID row only
Unbound == "<unbound>"

\* no exception raised
None == "None"

InitReader ==
    [ state        |-> start,
      group        |-> "",
      group_name   |-> Unbound,
      data_sizes   |-> << >>,
      other_fields |-> << >>,
      split_start  |-> 0,
      split_end    |-> 0,
      output       |-> << >>,
      raised       |-> None ]

\* variant: the variables are cleared but the read state is not reset
ClearFinishedKeepState(R) ==
    IF R.state = finished
    THEN [R EXCEPT !.group = "",
                   !.data_sizes = << >>,
                   !.other_fields = << >>,
                   !.split_start = 0,
                   !.split_end = 0]
    ELSE R

\* End of a group, clear variables
ClearFinished(R) ==
    IF R.state = finished
    THEN [R EXCEPT !.group = "",
                   !.data_sizes = << >>,
                   !.other_fields = << >>,
                   !.split_start = 0,
                   !.split_end = 0,
                   !.state = start]
    ELSE R

\* variant: a blank line ends a group only once its rows have begun
BlankLineAfterRows(R) ==
    IF R.state = result_row THEN [R EXCEPT !.state = finished] ELSE R

\* check for the end of the group
BlankLine(R) == [R EXCEPT !.state = finished]

\* variant: group_name is bound by the first group ID row and kept
GroupRowFirstOnly(R, line) ==
    [R EXCEPT !.group_name = IF R.group_name = Unbound THEN line[1]
                             ELSE R.group_name,
              !.state = header]

\* group ID row
GroupRow(R, line) == [R EXCEPT !.group_name = line[1], !.state = header]

\* header row
HeaderRow(R, line) ==
    LET h == parse_celero_recordTable_header(line)
    IN  [R EXCEPT !.data_sizes = h.data_sizes,
                  !.other_fields = h.other_fields,
                  !.split_start = h.split_start,
                  !.split_end = h.split_end,
                  !.state = result_row]

\* variant: the times are stored under the name data_sizes
ResultRowRebinding(R, line) ==
    LET benchmark_name == line[1]
        other_data == Slice(line, 1, R.split_start)
        t_times == Slice(line, R.split_start, R.split_end)
        times == [i \in 1..Len(t_times) |-> float(t_times[i])]
        result == [ group          |-> R.group_name,
                    benchmark_name |-> benchmark_name,
                    data_sizes     |-> R.data_sizes,
                    times          |-> times,
                    extra_data     |-> DictZip(R.other_fields, other_data) ]
    IN  IF \E i \in 1..Len(t_times) : ~IsFloat(t_times[i])
        THEN [R EXCEPT !.raised = "ValueError"]
        ELSE [R EXCEPT !.output = Append(R.output, result),
                       !.data_sizes = times]

\* variant: output.insert(0, result) in place of output.append(result)
ResultRowInsertFirst(R, line) ==
    LET benchmark_name == line[1]
        other_data == Slice(line, 1, R.split_start)
        t_times == Slice(line, R.split_start, R.split_end)
        result == [ group          |-> R.group_name,
                    benchmark_name |-> benchmark_name,
                    data_sizes     |-> R.data_sizes,
                    times          |-> [i \in 1..Len(t_times) |-> float(t_times[i])],
                    extra_data     |-> DictZip(R.other_fields, other_data) ]
    IN  IF \E i \in 1..Len(t_times) : ~IsFloat(t_times[i])
        THEN [R EXCEPT !.raised = "ValueError"]
        ELSE [R EXCEPT !.output = <<result>> \o R.output]

\* result row
ResultRow(R, line) ==
    LET benchmark_name == line[1]
        other_data == Slice(line, 1, R.split_start)
        t_times == Slice(line, R.split_start, R.split_end)
        result == [ group          |-> R.group_name,
                    benchmark_name |-> benchmark_name,
                    data_sizes     |-> R.data_sizes,
                    times          |-> [i \in 1..Len(t_times) |-> float(t_times[i])],
                    extra_data     |-> DictZip(R.other_fields, other_data) ]
    IN  IF \E i \in 1..Len(t_times) : ~IsFloat(t_times[i])
        THEN [R EXCEPT !.raised = "ValueError"]
        ELSE [R EXCEPT !.output = Append(R.output, result)]

\* variant: only the empty line is blank, and no line is filtered
ProcessLineBlankIsEmpty(R, raw) ==
    LET R1 == ClearFinished(R)
    IN  IF raw = <<"">> THEN BlankLine(R1)
        ELSE IF R1.state = start THEN GroupRow(R1, raw)
        ELSE IF R1.state = header THEN HeaderRow(R1, raw)
        ELSE IF R1.state = result_row THEN ResultRow(R1, raw)
        ELSE R1

\* variant: empty fields are dropped to find blank lines and in group and
\* header rows, but a result row is sliced as it was split
ProcessLineRowsUnfiltered(R, raw) ==
    LET R1 == ClearFinished(R)
        line == FilterEmpty(raw)
    IN  IF Len(line) = 0 THEN BlankLine(R1)
        ELSE IF R1.state = start THEN GroupRow(R1, line)
        ELSE IF R1.state = header THEN HeaderRow(R1, line)
        ELSE IF R1.state = result_row THEN ResultRow(R1, raw)
        ELSE R1

\* one pass of `for line in infile`
ProcessLine(R, raw) ==
    LET R1 == ClearFinished(R)
        line == FilterEmpty(raw)
    IN  IF Len(line) = 0 THEN BlankLine(R1)
        ELSE IF R1.state = start THEN GroupRow(R1, line)
        ELSE IF R1.state = header THEN HeaderRow(R1, line)
        ELSE IF R1.state = result_row THEN ResultRow(R1, line)
        ELSE R1

\* the reader's locals after the lines of a whole file, read from the top
RECURSIVE ReadFrom(_, _)
ReadFrom(R, lines) ==
    IF lines = << >> \/ R.raised # None THEN R
    ELSE ReadFrom(ProcessLine(R, Head(lines)), Tail(lines))

read_celero_recordTable(lines) == ReadFrom(InitReader, lines)

-----------------------------------------------------------------------------
(* import_directory, as one step: the files are read in turn, the records  *)
(* of each are added to results, an exception of the reader ends it        *)

RECURSIVE ImportFrom(_, _)
ImportFrom(rs, files) ==
    IF files = << >> THEN [ raised |-> None, value |-> rs ]
    ELSE LET R == read_celero_recordTable(Head(files))
         IN  IF R.raised # None
             THEN [ raised |-> R.raised, value |-> << >> ]
             ELSE ImportFrom(rs \o R.output, Tail(files))

import_directory(files) == ImportFrom(<< >>, files)

-----------------------------------------------------------------------------
(* list_recordTable_groups, list_recordTable_attribute *)

\* variant: all_groups is returned in place of unique_groups
list_recordTable_groups_all(rs) ==
    LET all_groups == [i \in 1..Len(rs) |-> rs[i].group]
    IN  [ raised |-> None, value |-> all_groups ]

list_recordTable_groups(rs) ==
    LET all_groups == [i \in 1..Len(rs) |-> rs[i].group]
    IN  [ raised |-> None, value |-> SortedSet(Range(all_groups)) ]

\* variant: a record without the attribute is skipped
list_recordTable_attribute_skipping(rs, attribute) ==
    LET having == SelectSeq(rs, LAMBDA r : attribute \in DOMAIN r.extra_data)
        entries == [i \in 1..Len(having) |-> having[i].extra_data[attribute]]
    IN  [ raised |-> None, value |-> SortedSet(Range(entries)) ]

list_recordTable_attribute(rs, attribute) ==
    IF \E i \in 1..Len(rs) : attribute \notin DOMAIN rs[i].extra_data
    THEN [ raised |-> "KeyError", value |-> << >> ]
    ELSE LET entries == [i \in 1..Len(rs) |-> rs[i].extra_data[attribute]]
         IN  [ raised |-> None, value |-> SortedSet(Range(entries)) ]

-----------------------------------------------------------------------------
(* The state machine *)

\* argparse: an option that was not given is None, a flag False
NoArgs ==
    [ directory     |-> None,
      file          |-> None,
      list_groups   |-> FALSE,
      data_type     |-> None,
      groups        |-> None,
      list_backends |-> FALSE,
      backend       |-> None ]

\* the reader's locals, as the record the operators above work on
Cur ==
    [ state        |-> state,
      group        |-> group,
      group_name   |-> group_name,
      data_sizes   |-> data_sizes,
      other_fields |-> other_fields,
      split_start  |-> split_start,
      split_end    |-> split_end,
      output       |-> output,
      raised       |-> IF pc = "raised" THEN "ValueError" ELSE None ]

\* main and import_directory are not under way
NoMain ==
    /\ args = NoArgs
    /\ csv_files = << >>
    /\ groups = << >>
    /\ visited = 0
    /\ plots = << >>
    /\ error = None

Init ==
    /\ pc = "reading"
    /\ infile = << >>
    /\ state = InitReader.state
    /\ group = InitReader.group
    /\ group_name = InitReader.group_name
    /\ data_sizes = InitReader.data_sizes
    /\ other_fields = InitReader.other_fields
    /\ split_start = InitReader.split_start
    /\ split_end = InitReader.split_end
    /\ output = InitReader.output
    /\ results = << >>
    /\ asked = ""
    /\ listed = [ raised |-> None, value |-> << >> ]
    /\ NoMain

\* the loop reads the next line of the file
ReadLine(raw) ==
    /\ pc = "reading"
    /\ LET R == ProcessLine(Cur, raw)
       IN  /\ state' = R.state
           /\ group' = R.group
           /\ group_name' = R.group_name
           /\ data_sizes' = R.data_sizes
           /\ other_fields' = R.other_fields
           /\ split_start' = R.split_start
           /\ split_end' = R.split_end
           /\ output' = R.output
           /\ pc' = IF R.raised # None THEN "raised" ELSE "reading"
    /\ infile' = Append(infile, raw)
    /\ UNCHANGED <<results, asked, listed, mainvars>>

\* variant: a file that ends before its header row is refused
ReturnComplete ==
    /\ pc = "reading"
    /\ pc' = IF state \in {start, header} THEN "raised" ELSE "returned"
    /\ results' = output
    /\ UNCHANGED <<infile, state, group, group_name, data_sizes, other_fields,
                   split_start, split_end, output, asked, listed, mainvars>>

\* the file is exhausted: return output
Return ==
    /\ pc = "reading"
    /\ pc' = "returned"
    /\ results' = output
    /\ UNCHANGED <<infile, state, group, group_name, data_sizes, other_fields,
                   split_start, split_end, output, asked, listed, mainvars>>

\* main, --list-groups
ListGroups ==
    /\ pc = "returned"
    /\ listed' = list_recordTable_groups(results)
    /\ pc' = "groups"
    /\ UNCHANGED <<infile, state, group, group_name, data_sizes, other_fields,
                   split_start, split_end, output, results, asked, mainvars>>

\* main, --list-backends (the helper is called with the attribute's name)
ListAttribute(key) ==
    /\ pc = "returned"
    /\ asked' = key
    /\ listed' = list_recordTable_attribute(results, key)
    /\ pc' = "backends"
    /\ UNCHANGED <<infile, state, group, group_name, data_sizes, other_fields,
                   split_start, split_end, output, results, mainvars>>

ReadAny == \E raw \in Lines : Len(infile) < MaxLines /\ ReadLine(raw)

ListAny == \E key \in Attributes : ListAttribute(key)

Next == ReadAny \/ Return \/ ListGroups \/ ListAny

Spec == Init /\ [][Next]_vars

\* longer files over fewer kinds of line
ReadSection == \E raw \in SectionLines : Len(infile) < MaxSectionLines /\ ReadLine(raw)

NextSections == ReadSection

SpecSections == Init /\ [][NextSections]_vars

\* files that may stop anywhere, read to the end and returned
ReadTruncated == \E raw \in TruncatedLines : Len(infile) < MaxTruncatedLines /\ ReadLine(raw)

NextTruncated == ReadTruncated \/ Return

SpecTruncated == Init /\ [][NextTruncated]_vars

\* files with runs of blank lines of both kinds
ReadBlankRun == \E raw \in BlankRunLines : Len(infile) < MaxBlankRunLines /\ ReadLine(raw)

NextBlankRuns == ReadBlankRun

SpecBlankRuns == Init /\ [][NextBlankRuns]_vars

\* import_directory, file by file: pc is "between" in its loop when no file
\* is being read

\* the lines read so far, over all the files
LinesRead(files) ==
    LET RECURSIVE Sum(_)
        Sum(fs) == IF fs = << >> THEN 0 ELSE Len(Head(fs)) + Sum(Tail(fs))
    IN  Sum(files)

InitImport ==
    /\ pc = "between"
    /\ infile = << >>
    /\ state = InitReader.state
    /\ group = InitReader.group
    /\ group_name = InitReader.group_name
    /\ data_sizes = InitReader.data_sizes
    /\ other_fields = InitReader.other_fields
    /\ split_start = InitReader.split_start
    /\ split_end = InitReader.split_end
    /\ output = InitReader.output
    /\ results = << >>
    /\ asked = ""
    /\ listed = [ raised |-> None, value |-> << >> ]
    /\ args = [NoArgs EXCEPT !.directory = "dir"]
    /\ csv_files = << >>
    /\ groups = << >>
    /\ visited = 0
    /\ plots = << >>
    /\ error = None

\* variant: the reader's state outlives the call, only output starts empty
OpenFileKeepLocals ==
    /\ pc = "between"
    /\ Len(csv_files) < MaxFiles
    /\ pc' = "reading"
    /\ infile' = << >>
    /\ output' = << >>
    /\ UNCHANGED <<state, group, group_name, data_sizes, other_fields,
                   split_start, split_end, results, asked, listed, mainvars>>

\* read_celero_recordTable is called for the next file
OpenFile ==
    /\ pc = "between"
    /\ Len(csv_files) < MaxFiles
    /\ pc' = "reading"
    /\ infile' = << >>
    /\ state' = InitReader.state
    /\ group' = InitReader.group
    /\ group_name' = InitReader.group_name
    /\ data_sizes' = InitReader.data_sizes
    /\ other_fields' = InitReader.other_fields
    /\ split_start' = InitReader.split_start
    /\ split_end' = InitReader.split_end
    /\ output' = InitReader.output
    /\ UNCHANGED <<results, asked, listed, mainvars>>

ReadImport ==
    \E raw \in ImportLines :
        /\ LinesRead(csv_files) + Len(infile) < MaxImportLines
        /\ ReadLine(raw)

\* the file is exhausted: results.extend(...)
ExtendResults ==
    /\ pc = "reading"
    /\ pc' = "between"
    /\ results' = results \o output
    /\ csv_files' = Append(csv_files, infile)
    /\ UNCHANGED <<infile, state, group, group_name, data_sizes, other_fields,
                   split_start, split_end, output, asked, listed, args,
                   groups, visited, plots, error>>

\* no file is left: return results
ImportReturn ==
    /\ pc = "between"
    /\ pc' = "returned"
    /\ UNCHANGED <<infile, state, group, group_name, data_sizes, other_fields,
                   split_start, split_end, output, results, asked, listed,
                   mainvars>>

NextImport == OpenFile \/ ReadImport \/ ExtendResults \/ ImportReturn

SpecImport == InitImport /\ [][NextImport]_vars

\* the listing helpers applied to any record list the reader can return
RecordPool ==
    { read_celero_recordTable(<<g, HeaderLine, r>>).output[1] :
        g \in {GroupLineA, GroupLineB}, r \in {RowLine, RowShort, RowNameOnly} }

RecordLists == UNION { [1..n -> RecordPool] : n \in 0..MaxRecords }

InitLists ==
    /\ pc = "returned"
    /\ infile = << >>
    /\ state = InitReader.state
    /\ group = InitReader.group
    /\ group_name = InitReader.group_name
    /\ data_sizes = InitReader.data_sizes
    /\ other_fields = InitReader.other_fields
    /\ split_start = InitReader.split_start
    /\ split_end = InitReader.split_end
    /\ output = InitReader.output
    /\ results \in RecordLists
    /\ asked = ""
    /\ listed = [ raised |-> None, value |-> << >> ]
    /\ NoMain

NextLists == ListGroups \/ ListAny

SpecLists == InitLists /\ [][NextLists]_vars

-----------------------------------------------------------------------------
(* main: the files of the directory, the options, the steps of main        *)

MainHeader == <<"", "AF_PLATFORM", "AF_DEVICE", "128", "256">>
MainBaseline == <<"Baseline", "CUDA", "cpu", "3.5", "3.5">>
MainRowCuda == <<"gpu", "CUDA", "gpu", "1.5", "2.5">>
MainRowOpenCL == <<"cpu", "OpenCL", "cpu", "2.5", "3.5">>

FileConv == << GroupLineA, MainHeader, MainBaseline, MainRowCuda, MainRowOpenCL >>
FileSort == << GroupLineB, MainHeader, MainRowOpenCL, MainBaseline >>
FileBoth == FileSort \o << EmptyLine >> \o FileConv
\* a header without AF_DEVICE
FileOld == << GroupLineA, HeaderLine, RowLine >>
\* a row with a name only: its record has no extra data and no times
FileBare == << GroupLineB, HeaderLine, RowNameOnly >>

\* glob.glob(directory + "/*.csv"), for the directories main is run on
Directories ==
    { << >>, << FileConv >>, << FileSort >>, << FileConv, FileSort >>,
      << FileSort, FileConv >>, << FileBoth, FileConv >>, << FileOld >>,
      << FileBare, FileConv >> }

\* the file a --file option names
NamedFile == FileConv

\* parser.parse_args(): the command lines main is run with
ArgSets ==
    [ directory     : {None, "dir"},
      file          : {None, "file.csv"},
      list_groups   : BOOLEAN,
      data_type     : {None, "f32", "f16"},
      groups        : {None, <<"sort_f64">>},
      list_backends : BOOLEAN,
      backend       : {None, <<"CUDA">>, <<"CUDA", "OpenCL">>} ]

\* x[-3:]
Suffix3(x) ==
    CASE x = "AF_DEVICE" -> "ICE"
      [] x = "AF_PLATFORM" -> "ORM"
      [] x = "Baseline" -> "ine"
      [] x = "CUDA" -> "UDA"
      [] x = "OpenCL" -> "nCL"
      [] x = "conv_f32" -> "f32"
      [] x = "fast" -> "ast"
      [] x = "sort_f64" -> "f64"
      [] OTHER -> x

\* the groups main keeps
include_groups(rs, a) ==
    LET all_groups == list_recordTable_groups(rs).value
        typed == IF a.data_type # None
                 THEN SelectSeq(all_groups, LAMBDA x : Suffix3(x) = a.data_type)
                 ELSE << >>
        named == IF a.groups # None THEN typed \o a.groups ELSE typed
    IN  IF Len(named) = 0 THEN all_groups ELSE named

\* variant: the Baseline records are dropped with the groups left out
LimitByGroupsNoBaseline(rs, inc) ==
    SelectSeq(rs, LAMBDA x : x.group \in Range(inc) /\ x.benchmark_name # "Baseline")

\* limit by groups
LimitByGroups(rs, inc) == SelectSeq(rs, LAMBDA x : x.group \in Range(inc))

\* limit by backend
LimitByBackend(rs, backend) ==
    IF \E i \in 1..Len(rs) : "AF_PLATFORM" \notin DOMAIN rs[i].extra_data
    THEN [ raised |-> "KeyError", value |-> << >> ]
    ELSE [ raised |-> None,
           value |-> SelectSeq(rs, LAMBDA x :
                         x.extra_data["AF_PLATFORM"] \in Range(backend)) ]

\* the plot loop's temp: the records of the group, then those not Baseline
GroupRecords(rs, g) ==
    LET temp == SelectSeq(rs, LAMBDA x : x.group = g)
    IN  SelectSeq(temp, LAMBDA x : x.benchmark_name # "Baseline")

\* len(x / y) for two one-dimensional arrays (-1: they do not broadcast)
BroadcastLen(n, m) ==
    IF n = m THEN n ELSE IF n = 1 THEN m ELSE IF m = 1 THEN n ELSE -1

\* the exception one record ends a plot function with (None: none)
PlotRecordError(result, show_backend, metric) ==
    LET nx == Len(result.data_sizes)
        ny == IF metric = "throughput"
              THEN BroadcastLen(Len(result.data_sizes), Len(result.times))
              ELSE Len(result.times)
    IN  IF ny = -1 THEN "ValueError"
        ELSE IF "AF_DEVICE" \notin DOMAIN result.extra_data THEN "KeyError"
        ELSE IF show_backend /\ "AF_PLATFORM" \notin DOMAIN result.extra_data
             THEN "KeyError"
        ELSE IF nx # ny THEN "ValueError"
        ELSE None

\* the exception a plot function ends with (None: the plot is shown)
PlotError(rs, show_backend, metric) ==
    LET bad == {i \in 1..Len(rs) : PlotRecordError(rs[i], show_backend, metric) # None}
    IN  IF bad # {}
        THEN PlotRecordError(rs[CHOOSE i \in bad : \A j \in bad : i <= j],
                             show_backend, metric)
        ELSE IF rs = << >> THEN "IndexError"
        ELSE None

plot_time_vs_size(rs, show_backend) == PlotError(rs, show_backend, "time")

plot_throughput_vs_size(rs, show_backend) == PlotError(rs, show_backend, "throughput")

plot_image_rate_vs_size(rs, show_backend) == PlotError(rs, show_backend, "image rate")

InitMain ==
    /\ pc = "main"
    /\ infile = << >>
    /\ state = InitReader.state
    /\ group = InitReader.group
    /\ group_name = InitReader.group_name
    /\ data_sizes = InitReader.data_sizes
    /\ other_fields = InitReader.other_fields
    /\ split_start = InitReader.split_start
    /\ split_end = InitReader.split_end
    /\ output = InitReader.output
    /\ results = << >>
    /\ asked = ""
    /\ listed = [ raised |-> None, value |-> << >> ]
    /\ args \in ArgSets
    /\ csv_files \in Directories
    /\ groups = << >>
    /\ visited = 0
    /\ plots = << >>
    /\ error = None

readervars ==
    <<infile, state, group, group_name, data_sizes, other_fields,
      split_start, split_end, output>>

\* results is read from the directory, or from the file ...
SelectInput ==
    /\ pc = "main"
    /\ IF args.directory # None
       THEN LET r == import_directory(csv_files)
            IN  /\ results' = r.value
                /\ error' = r.raised
                /\ pc' = IF r.raised # None THEN "raised" ELSE "selected"
       ELSE \* ... whose name is looked up in `filename`, bound nowhere
            /\ results' = results
            /\ error' = "NameError"
            /\ pc' = "raised"
    /\ UNCHANGED <<readervars, asked, listed, args, csv_files, groups, visited,
                   plots>>

MainListGroups ==
    /\ pc = "selected"
    /\ args.list_groups
    /\ listed' = list_recordTable_groups(results)
    /\ pc' = "quit"
    /\ UNCHANGED <<readervars, results, asked, mainvars>>

MainListBackends ==
    /\ pc = "selected"
    /\ ~args.list_groups
    /\ args.list_backends
    /\ asked' = "AF_PLATFORM"
    /\ listed' = list_recordTable_attribute(results, "AF_PLATFORM")
    /\ error' = listed'.raised
    /\ pc' = IF listed'.raised # None THEN "raised" ELSE "quit"
    /\ UNCHANGED <<readervars, results, args, csv_files, groups, visited, plots>>

\* the groups and backends asked for are kept, the groups left are listed
FilterResults ==
    /\ pc = "selected"
    /\ ~args.list_groups
    /\ ~args.list_backends
    /\ LET limited == LimitByGroups(results, include_groups(results, args))
           backed == IF args.backend # None
                     THEN LimitByBackend(limited, args.backend)
                     ELSE [ raised |-> None, value |-> limited ]
       IN  IF backed.raised # None
           THEN /\ results' = limited
                /\ error' = backed.raised
                /\ pc' = "raised"
                /\ UNCHANGED groups
           ELSE /\ results' = backed.value
                /\ groups' = list_recordTable_groups(backed.value).value
                /\ pc' = "plotting"
                /\ UNCHANGED error
    /\ UNCHANGED <<readervars, asked, listed, args, csv_files, visited, plots>>

\* one turn of the plot loop
PlotGroup ==
    /\ pc = "plotting"
    /\ visited < Len(groups)
    /\ LET g == groups[visited + 1]
           temp == GroupRecords(results, g)
       IN  IF args.backend = None
           THEN \* len(None)
                /\ error' = "TypeError"
                /\ pc' = "raised"
                /\ UNCHANGED <<plots, visited>>
           ELSE LET show_backend == Len(args.backend) > 1
                    shown(metric) == [ group |-> g, metric |-> metric,
                                       records |-> temp,
                                       show_backend |-> show_backend ]
                    e1 == plot_time_vs_size(temp, show_backend)
                    e2 == plot_throughput_vs_size(temp, show_backend)
                    e3 == plot_image_rate_vs_size(temp, show_backend)
                IN  IF e1 # None
                    THEN /\ error' = e1 /\ pc' = "raised"
                         /\ UNCHANGED <<plots, visited>>
                    ELSE IF e2 # None
                    THEN /\ error' = e2 /\ pc' = "raised"
                         /\ plots' = Append(plots, shown("time"))
                         /\ UNCHANGED visited
                    ELSE IF e3 # None
                    THEN /\ error' = e3 /\ pc' = "raised"
                         /\ plots' = plots \o << shown("time"), shown("throughput") >>
                         /\ UNCHANGED visited
                    ELSE /\ plots' = plots \o << shown("time"), shown("throughput"),
                                                 shown("image rate") >>
                         /\ visited' = visited + 1
                         /\ UNCHANGED <<error, pc>>
    /\ UNCHANGED <<readervars, results, asked, listed, args, csv_files, groups>>

\* the loop is over
FinishMain ==
    /\ pc = "plotting"
    /\ visited = Len(groups)
    /\ pc' = "done"
    /\ UNCHANGED <<readervars, results, asked, listed, mainvars>>

NextMain ==
    \/ SelectInput
    \/ MainListGroups
    \/ MainListBackends
    \/ FilterResults
    \/ PlotGroup
    \/ FinishMain

SpecMain == InitMain /\ [][NextMain]_vars

TypeOK ==
    /\ pc \in {"reading", "returned", "raised", "groups", "backends", "between",
               "main", "selected", "quit", "plotting", "done"}
    /\ state \in {start, header, result_row, finished}
    /\ split_start <= split_end

-----------------------------------------------------------------------------
(* The layout of a file, read off its lines alone *)

IsBlank(raw) == \A k \in 1..Len(raw) : raw[k] = ""

Last(s) == s[Len(s)]

\* the first non-empty field of a non-blank line
FirstField(raw) ==
    raw[CHOOSE k \in 1..Len(raw) : raw[k] # "" /\ \A j \in 1..(k - 1) : raw[j] = ""]

Max(S) == CHOOSE x \in S : \A y \in S : y <= x

\* the last blank line before line i (0: none)
BlankBefore(lines, i) ==
    Max({0} \cup {j \in 1..(i - 1) : IsBlank(lines[j])})

\* the last blank line of the file (0: none)
LastBlank(lines) == BlankBefore(lines, Len(lines) + 1)

\* the place of line i in its section: 1 the group ID row, 2 the header row,
\* 3 and more the result rows (a section runs from one blank line to the next)
SectionPos(lines, i) == i - BlankBefore(lines, i)

\* the benchmark names of the result rows from line i on, in order, line i
\* being at place pos + 1 of its section
RECURSIVE RowNamesFrom(_, _, _)
RowNamesFrom(lines, i, pos) ==
    IF i > Len(lines) THEN << >>
    ELSE IF IsBlank(lines[i]) THEN RowNamesFrom(lines, i + 1, 0)
    ELSE IF pos >= 2
         THEN <<FirstField(lines[i])>> \o RowNamesFrom(lines, i + 1, pos + 1)
         ELSE RowNamesFrom(lines, i + 1, pos + 1)

RowNames(lines) == RowNamesFrom(lines, 1, 0)

-----------------------------------------------------------------------------
(* C1: the output holds one record per line read as a result row, in the   *)
(* order of those lines within and across sections; the state stays        *)
(* result_row over consecutive non-blank rows, and a line read in start,   *)
(* header or finished appends nothing.  Result rows are the non-blank      *)
(* lines from the third of a section on.  (A row whose time is no float    *)
(* raises: it is the last line read and the one row without a record.)     *)

C1_RecordPerRow ==
    LET names == RowNames(infile)
        n == IF pc = "raised" THEN Len(names) - 1 ELSE Len(names)
    IN  /\ Len(output) = n
        /\ \A j \in 1..n : output[j].benchmark_name = names[j]

\* the read state follows the place of the last line in its section
C1_StateByLayout ==
    (pc # "raised" /\ infile # << >>) =>
        state = IF IsBlank(Last(infile)) THEN finished
                ELSE IF SectionPos(infile, Len(infile)) = 1 THEN header
                ELSE result_row

C1_OrderedRecords == C1_RecordPerRow /\ C1_StateByLayout

\* two sections have each given a record, and the two records differ
C1_Witness ==
    /\ pc = "reading"
    /\ Len(output) = 2
    /\ output[1] # output[2]
    /\ \E i \in 1..Len(infile) :
          /\ IsBlank(infile[i])
          /\ Len(RowNames(SubSeq(infile, 1, i))) = 1

-----------------------------------------------------------------------------
(* C2: every record of the output has as many times as data sizes,         *)
(* whatever the width of its row.                                          *)

C2_TimesMatchSizes ==
    \A j \in 1..Len(output) :
        Len(output[j].times) = Len(output[j].data_sizes)

-----------------------------------------------------------------------------
(* C3: for line sequences A and B that each read without error, reading A, *)
(* one blank line, then B gives the records of A followed by those of B,   *)
(* whatever state A leaves the reader in.                                  *)

C3_Concatenation ==
    pc # "raised" =>
        \A i \in 1..Len(infile) :
            IsBlank(infile[i]) =>
                LET A == read_celero_recordTable(SubSeq(infile, 1, i - 1))
                    B == read_celero_recordTable(SubSeq(infile, i + 1, Len(infile)))
                IN  (A.raised = None /\ B.raised = None) =>
                        output = A.output \o B.output

\* A was left in result_row with a record, B gave a record of its own
C3_Witness ==
    /\ pc = "reading"
    /\ \E i \in 1..Len(infile) :
          /\ IsBlank(infile[i])
          /\ LET A == read_celero_recordTable(SubSeq(infile, 1, i - 1))
                 B == read_celero_recordTable(SubSeq(infile, i + 1, Len(infile)))
             IN  /\ A.state = result_row
                 /\ Len(A.output) >= 1
                 /\ Len(B.output) >= 1

-----------------------------------------------------------------------------
(* C4: a blank line met in start or in header (before any header row)      *)
(* moves the reader to finished and leaves the section without a record;   *)
(* the next non-blank line is read as the group ID row of a fresh section, *)
(* and what follows is read as by a reader started on it.                  *)

C4_BlankBeforeHeader ==
    pc # "raised" =>
        \A i \in 1..Len(infile) :
            (IsBlank(infile[i]) /\ SectionPos(infile, i) \in {1, 2}) =>
                LET before == read_celero_recordTable(
                                  SubSeq(infile, 1, BlankBefore(infile, i)))
                    upto == read_celero_recordTable(SubSeq(infile, 1, i))
                    rest == SubSeq(infile, i + 1, Len(infile))
                    fresh == read_celero_recordTable(rest)
                    later == {k \in (i + 1)..Len(infile) : ~IsBlank(infile[k])}
                IN  /\ upto.state = finished
                    /\ upto.output = before.output
                    /\ later # {} =>
                          LET k == CHOOSE k \in later : \A m \in later : k <= m
                              at == read_celero_recordTable(SubSeq(infile, 1, k))
                          IN  /\ at.state = header
                              /\ at.group_name = FirstField(infile[k])
                              /\ at.output = before.output
                    /\ output = before.output \o fresh.output
                    /\ rest # << >> =>
                          /\ state = fresh.state
                          /\ data_sizes = fresh.data_sizes
                          /\ other_fields = fresh.other_fields
                          /\ split_start = fresh.split_start
                          /\ split_end = fresh.split_end
                    /\ later # {} => group_name = fresh.group_name

\* a blank line right after a group ID row, then a section that gives a record
C4_Witness ==
    /\ pc = "reading"
    /\ Len(infile) >= 5
    /\ ~IsBlank(infile[1])
    /\ IsBlank(infile[2])
    /\ state = result_row
    /\ Len(output) = 1
    /\ output[1].group = FirstField(infile[3])

-----------------------------------------------------------------------------
(* The header row of the section of line i, and the last line as a row *)

\* what the header row of the section of line i gives (line i a result row)
HeaderOf(lines, i) ==
    parse_celero_recordTable_header(
        FilterEmpty(lines[BlankBefore(lines, i) + 2]))

\* the last line read was a result row and gave the last record
LastIsRecordedRow ==
    /\ pc = "reading"
    /\ infile # << >>
    /\ ~IsBlank(Last(infile))
    /\ SectionPos(infile, Len(infile)) >= 3

Max0(n) == IF n < 0 THEN 0 ELSE n

\* rec is the record of a row sliced by position on `fields`: field 0 the
\* benchmark name, fields [1, split_start) the extra-data values (of equal
\* keys the last one counts), fields [split_start, split_end) the times
SlicedFrom(rec, fields) ==
    LET nt == Max0(Min(split_end, Len(fields)) - split_start)
        nx == Min(Len(other_fields), Max0(Min(split_start, Len(fields)) - 1))
    IN  /\ rec.benchmark_name = fields[1]
        /\ Len(rec.times) = nt
        /\ \A j \in 1..nt :
              /\ IsFloat(fields[split_start + j])
              /\ rec.times[j] = float(fields[split_start + j])
        /\ DOMAIN rec.extra_data = {other_fields[j] : j \in 1..nx}
        /\ \A j \in 1..nx :
              (\A m \in (j + 1)..nx : other_fields[m] # other_fields[j]) =>
                  rec.extra_data[other_fields[j]] = fields[1 + j]

-----------------------------------------------------------------------------
(* C5 as stated: a result row is sliced on its unfiltered comma-split      *)
(* fields, so that an empty field shifts no later field into an earlier    *)
(* column.                                                                 *)

-----------------------------------------------------------------------------
(* C6: a header row with a non-numeric token in its size range (after a    *)
(* size), or a result row with a token that is no float in                 *)
(* [split_start, split_end), makes the reader fail at that line: nothing   *)
(* is read after it and the row gives no record.                           *)

MalformedHeader(lines, i) ==
    /\ ~IsBlank(lines[i])
    /\ SectionPos(lines, i) = 2
    /\ LET line == FilterEmpty(lines[i])
       IN  \E a, b \in 1..Len(line) :
               a < b /\ isdigit(line[a]) /\ ~isdigit(line[b])

MalformedRow(lines, i) ==
    /\ ~IsBlank(lines[i])
    /\ SectionPos(lines, i) >= 3
    /\ LET line == FilterEmpty(lines[i])
           h == HeaderOf(lines, i)
       IN  \E j \in (h.split_start + 1)..Min(h.split_end, Len(line)) :
               ~IsFloat(line[j])

C6_MalformedRaises ==
    \A i \in 1..Len(infile) :
        (MalformedHeader(infile, i) \/ MalformedRow(infile, i)) =>
            /\ pc = "raised"
            /\ i = Len(infile)
            /\ Len(output) = Len(RowNames(SubSeq(infile, 1, i - 1)))

-----------------------------------------------------------------------------
(* C7: a result row whose number of fields is not                          *)
(* 1 + count(other_fields) + count(data_sizes) makes the reader fail at    *)
(* that line, and no record of the output lacks times or extra-data keys.  *)

MismatchedRow(lines, i) ==
    /\ ~IsBlank(lines[i])
    /\ SectionPos(lines, i) >= 3
    /\ LET h == HeaderOf(lines, i)
       IN  Len(lines[i]) # 1 + Len(h.other_fields) + Len(h.data_sizes)

C7_MismatchRaises ==
    /\ \A i \in 1..Len(infile) :
          MismatchedRow(infile, i) => (pc = "raised" /\ i = Len(infile))
    /\ LastIsRecordedRow =>
          /\ Len(Last(output).times) = Len(data_sizes)
          /\ DOMAIN Last(output).extra_data = Range(other_fields)

-----------------------------------------------------------------------------
(* C8: when the file ends while the reader is in start or header (nothing  *)
(* read, or only a group ID row since the last blank line), the reader     *)
(* returns without an error, and returns the records of the sections       *)
(* before: the unfinished section adds none.                               *)

C8_Returned ==
    (pc = "returned" /\ state \in {start, header}) =>
        /\ results = read_celero_recordTable(
                         SubSeq(infile, 1, LastBlank(infile))).output
        /\ Len(results) = Len(RowNames(infile))

\* the step taken at the end of the file
C8_Step ==
    (pc = "reading" /\ state \in {start, header} /\ infile' = infile) =>
        (pc' = "returned" /\ results' = output)

C8_TruncatedSection == []C8_Returned /\ [][C8_Step]_vars

\* a section with a record, a blank line, a group ID row, the end of the file
C8_Witness ==
    /\ pc = "returned"
    /\ state = header
    /\ Len(results) >= 1
    /\ LastBlank(infile) = Len(infile) - 1

-----------------------------------------------------------------------------
(* C9: list_recordTable_groups returns the distinct groups of the records, *)
(* each once, in strictly ascending order, for any record list.            *)

StrictlyAscending(xs) ==
    \A a, b \in 1..Len(xs) : a < b => StrLess(xs[a], xs[b])

C9_GroupsSorted ==
    pc = "groups" =>
        /\ listed.raised = None
        /\ Range(listed.value) = {results[i].group : i \in 1..Len(results)}
        /\ StrictlyAscending(listed.value)

\* a list that repeats a group and meets the greater group first
C9_Witness ==
    /\ pc = "groups"
    /\ Len(results) = 3
    /\ StrLess(results[2].group, results[1].group)
    /\ results[3].group = results[1].group
    /\ Len(listed.value) = 2

-----------------------------------------------------------------------------
(* C10: list_recordTable_attribute returns the distinct values of the      *)
(* attribute in ascending order when every record has it, and fails with   *)
(* KeyError, returning nothing, when a record lacks it.                    *)

C10_AttributeOrKeyError ==
    pc = "backends" =>
        IF \A i \in 1..Len(results) : asked \in DOMAIN results[i].extra_data
        THEN /\ listed.raised = None
             /\ Range(listed.value) =
                    {results[i].extra_data[asked] : i \in 1..Len(results)}
             /\ StrictlyAscending(listed.value)
        ELSE /\ listed.raised = "KeyError"
             /\ listed.value = << >>

\* the first records have the attribute, a later one lacks it
C10_Witness ==
    /\ pc = "backends"
    /\ Len(results) = 3
    /\ asked \in DOMAIN results[1].extra_data
    /\ asked \in DOMAIN results[2].extra_data
    /\ asked \notin DOMAIN results[3].extra_data
    /\ listed.raised = "KeyError"

-----------------------------------------------------------------------------
(* C16: in a well-formed section (a header row with an empty first column, *)
(* k distinct non-numeric names and M sizes; a row of exactly 1 + k + M    *)
(* non-empty fields whose last M are floats) each row gives one record:    *)
(* benchmark_name is field 0, extra_data maps the i-th name to field       *)
(* 1 + i, data_sizes are the header's sizes as integers, times are fields  *)
(* [split_start, split_end) with split_start = 1 + k and                   *)
(* split_end = split_start + M.                                            *)

\* the number of names of a header row: the fields from the second up to
\* the first size
NameCount(raw) ==
    Cardinality({i \in 2..Len(raw) : \A j \in 2..i : ~isdigit(raw[j])})

WellFormedHeader(raw) ==
    LET k == NameCount(raw)
    IN  /\ raw[1] = ""
        /\ \A i \in 2..(k + 1) : raw[i] # ""
        /\ \A i, j \in 2..(k + 1) : i # j => raw[i] # raw[j]
        /\ \A i \in (k + 2)..Len(raw) : isdigit(raw[i])

WellFormedRow(raw, k, M) ==
    /\ Len(raw) = 1 + k + M
    /\ \A i \in 1..Len(raw) : raw[i] # ""
    /\ \A i \in (k + 2)..Len(raw) : IsFloat(raw[i])

\* the last line read is a well-formed row of a well-formed section
LastIsWellFormedRow ==
    /\ pc \in {"reading", "raised"}
    /\ infile # << >>
    /\ ~IsBlank(Last(infile))
    /\ SectionPos(infile, Len(infile)) >= 3
    /\ LET h == infile[BlankBefore(infile, Len(infile)) + 2]
       IN  /\ WellFormedHeader(h)
           /\ WellFormedRow(Last(infile), NameCount(h),
                            Len(h) - 1 - NameCount(h))

C16_WellFormedRecord ==
    LastIsWellFormedRow =>
        LET h == infile[BlankBefore(infile, Len(infile)) + 2]
            r == Last(infile)
            k == NameCount(h)
            M == Len(h) - 1 - k
            rec == Last(output)
        IN  /\ pc = "reading"
            /\ Len(output) = Len(RowNames(infile))
            /\ split_start = 1 + k
            /\ split_end = split_start + M
            /\ rec.benchmark_name = r[1]
            /\ DOMAIN rec.extra_data = {h[1 + i] : i \in 1..k}
            /\ \A i \in 1..k : rec.extra_data[h[1 + i]] = r[1 + i]
            /\ rec.data_sizes = [i \in 1..M |-> int(h[1 + k + i])]
            /\ rec.times = [i \in 1..M |-> float(r[split_start + i])]
            /\ Len(rec.times) = M
            /\ Len(rec.data_sizes) = M

\* a row under a header with a name and two sizes
C16_Witness ==
    /\ LastIsWellFormedRow
    /\ Len(other_fields) = 1
    /\ Len(Last(output).times) = 2
    /\ Last(output).data_sizes = <<128, 256>>

-----------------------------------------------------------------------------
(* C17: when the reader is in finished and another line is read, all the   *)
(* working state of the section - the group name the records are tagged    *)
(* with, data_sizes, other_fields, split_start, split_end - is back at its *)
(* initial value and the state is start before the line is examined.       *)

C17_ResetClearsAll ==
    state = finished =>
        LET R == ClearFinished(Cur)
        IN  /\ R.state = start
            /\ R.group_name \in {InitReader.group_name, ""}
            /\ R.data_sizes = << >>
            /\ R.other_fields = << >>
            /\ R.split_start = 0
            /\ R.split_end = 0

-----------------------------------------------------------------------------
(* C18: reading a result row changes nothing but the output: the state     *)
(* stays result_row, the group name, data_sizes, other_fields, split_start *)
(* and split_end keep their values and the records already in the output   *)
(* are as they were; so the records of one section have the same group and *)
(* the same data_sizes.                                                    *)

\* for each result row, in order, the line that opens its section
RECURSIVE RowSectionsFrom(_, _, _)
RowSectionsFrom(lines, i, pos) ==
    IF i > Len(lines) THEN << >>
    ELSE IF IsBlank(lines[i]) THEN RowSectionsFrom(lines, i + 1, 0)
    ELSE IF pos >= 2
         THEN <<i - pos>> \o RowSectionsFrom(lines, i + 1, pos + 1)
         ELSE RowSectionsFrom(lines, i + 1, pos + 1)

RowSections(lines) == RowSectionsFrom(lines, 1, 0)

C18_SameSection ==
    LET sec == RowSections(infile)
    IN  \A j, k \in 1..Len(output) :
            sec[j] = sec[k] =>
                /\ output[j].group = output[k].group
                /\ output[j].data_sizes = output[k].data_sizes

C18_Step ==
    (state = result_row /\ infile' # infile /\ ~IsBlank(Last(infile'))) =>
        /\ state' = result_row
        /\ group' = group
        /\ group_name' = group_name
        /\ data_sizes' = data_sizes
        /\ other_fields' = other_fields
        /\ split_start' = split_start
        /\ split_end' = split_end
        /\ Len(output') \in {Len(output), Len(output) + 1}
        /\ SubSeq(output', 1, Len(output)) = output

C18_RowChangesOutputOnly == []C18_SameSection /\ [][C18_Step]_vars

\* two rows of one section have given two different records
C18_Witness ==
    /\ pc = "reading"
    /\ Len(infile) = 4
    /\ Len(output) = 2
    /\ output[1] # output[2]
    /\ Len(data_sizes) = 2

-----------------------------------------------------------------------------
(* C19: every record of the output has as its group the first non-empty    *)
(* field of the group ID row of its own section, never that of an earlier  *)
(* section, and no record comes before a group ID row was read.            *)

\* for each result row, in order, the first field of its group ID row
RowGroups(lines) ==
    LET sec == RowSections(lines)
    IN  [j \in 1..Len(sec) |-> FirstField(lines[sec[j]])]

C19_GroupOfSection ==
    LET gs == RowGroups(infile)
    IN  \A j \in 1..Len(output) :
            /\ output[j].group = gs[j]
            /\ output[j].group # Unbound

\* two sections with different group ID rows have each given a record
C19_Witness ==
    /\ Len(output) = 2
    /\ output[1].group # output[2].group
    /\ RowSections(infile)[1] # RowSections(infile)[2]

-----------------------------------------------------------------------------
(* C20: a run of one or more blank lines (empty, or made of commas only),  *)
(* wherever it stands, gives no record and leaves the reader taking the    *)
(* next non-blank line as a group ID row; the run reads as one blank line  *)
(* (the values a section leaves behind are cleared by the line that        *)
(* follows the first blank line, so they are compared after a non-blank    *)
(* line only).                                                             *)

\* the file with every run of blank lines made one empty line
RECURSIVE Squeeze(_)
Squeeze(lines) ==
    IF lines = << >> THEN << >>
    ELSE IF IsBlank(Head(lines))
         THEN IF Len(lines) >= 2 /\ IsBlank(lines[2])
              THEN Squeeze(Tail(lines))
              ELSE <<EmptyLine>> \o Squeeze(Tail(lines))
         ELSE <<Head(lines)>> \o Squeeze(Tail(lines))

C20_BlankRuns ==
    pc # "raised" =>
        LET one == read_celero_recordTable(Squeeze(infile))
            n == Len(infile)
        IN  /\ output = one.output
            /\ state = one.state
            /\ group_name = one.group_name
            /\ (n >= 1 /\ ~IsBlank(infile[n])) =>
                  /\ data_sizes = one.data_sizes
                  /\ other_fields = one.other_fields
                  /\ split_start = one.split_start
                  /\ split_end = one.split_end
            /\ (n >= 1 /\ IsBlank(infile[n])) =>
                  /\ state = finished
                  /\ Len(output) = Len(RowNames(SubSeq(infile, 1, n - 1)))
            /\ (n >= 2 /\ IsBlank(infile[n - 1]) /\ ~IsBlank(infile[n])) =>
                  /\ state = header
                  /\ group_name = FirstField(infile[n])
                  /\ Len(output) = Len(RowNames(SubSeq(infile, 1, n - 1)))

\* a run of an empty line and a line of commas in front of a section that
\* has given a record
C20_Witness ==
    /\ pc = "reading"
    /\ Len(output) >= 1
    /\ \E i \in 2..(Len(infile) - 3) :
          /\ infile[i] # infile[i + 1]
          /\ IsBlank(infile[i])
          /\ IsBlank(infile[i + 1])
          /\ ~IsBlank(infile[i - 1])
          /\ RowSections(infile)[Len(output)] = i + 2

-----------------------------------------------------------------------------
(* C15: import_directory returns the records of its files, each read on    *)
(* its own, one file after the other; the reader's state never passes from *)
(* a file to the next, so a file that ends in header or result_row without *)
(* a blank line does not change how the next file is read.                 *)

C15_FilesReadApart ==
    /\ results = import_directory(csv_files).value
    /\ import_directory(csv_files).raised = None
    /\ pc = "reading" =>
          LET alone == read_celero_recordTable(infile)
          IN  /\ state = alone.state
              /\ group_name = alone.group_name
              /\ data_sizes = alone.data_sizes
              /\ other_fields = alone.other_fields
              /\ split_start = alone.split_start
              /\ split_end = alone.split_end
              /\ output = alone.output

\* the first file ended in result_row with a record, no blank line after
\* it, and the second file gave a record too
C15_Witness ==
    /\ pc = "returned"
    /\ Len(csv_files) = 2
    /\ read_celero_recordTable(csv_files[1]).state = result_row
    /\ Len(read_celero_recordTable(csv_files[1]).output) >= 1
    /\ Len(read_celero_recordTable(csv_files[2]).output) >= 1
    /\ Len(results) >= 2

-----------------------------------------------------------------------------
(* main: what its claims compare it with *)

\* the records of the directory, as import_directory returns them
Imported == import_directory(csv_files).value

\* the benchmark names of the result rows of the files, in order
RECURSIVE RowNamesOf(_)
RowNamesOf(files) ==
    IF files = << >> THEN << >>
    ELSE RowNames(Head(files)) \o RowNamesOf(Tail(files))

\* the backend option lets the record pass
BackendAllows(r) ==
    \/ args.backend = None
    \/ /\ "AF_PLATFORM" \in DOMAIN r.extra_data
       /\ r.extra_data["AF_PLATFORM"] \in Range(args.backend)

\* the plot loop was entered
Filtered == pc \in {"plotting", "done"} \/ (pc = "raised" /\ groups # << >>)

-----------------------------------------------------------------------------
(* C11: a Baseline record is in the list the parser returns and in the     *)
(* list left by the group and backend filters, and only the plot loop's    *)
(* filter removes it: the records main works on are the imported ones, one *)
(* per result row in order; after the filters they are the imported        *)
(* records of the included groups and allowed backends, Baseline or not,   *)
(* in their order; the records of each plot are those of results of the    *)
(* plot's group that are not Baseline, in their order, results itself      *)
(* being left as it was.                                                   *)

C11_BaselineKept ==
    /\ pc = "selected" =>
          /\ results = Imported
          /\ [i \in 1..Len(results) |-> results[i].benchmark_name]
                = RowNamesOf(csv_files)
    /\ Filtered =>
          /\ results = SelectSeq(Imported, LAMBDA r :
                           /\ r.group \in Range(include_groups(Imported, args))
                           /\ BackendAllows(r))
          /\ \A k \in 1..Len(plots) :
                plots[k].records = SelectSeq(results, LAMBDA r :
                                       /\ r.group = plots[k].group
                                       /\ r.benchmark_name # "Baseline")

\* the loop is over, a group and a backend were left out, and a plot of two
\* or more records was shown for a group that has a Baseline record in
\* results
C11_Witness ==
    /\ pc = "done"
    /\ args.backend # None
    /\ Len(results) < Len(Imported)
    /\ \E g \in Range(list_recordTable_groups(Imported).value) : g \notin Range(groups)
    /\ \E k \in 1..Len(plots) :
          /\ Len(plots[k].records) >= 2
          /\ \E i \in 1..Len(results) :
                /\ results[i].group = plots[k].group
                /\ results[i].benchmark_name = "Baseline"

-----------------------------------------------------------------------------
(* C12: when no list option is set, the plot loop shows three plots for     *)
(* each group left by the filters, time, throughput, image rate in this     *)
(* order, the groups in ascending order, and ends without an exception,     *)
(* whichever of the options are given, the backend option or not.           *)

C12_ThreePlotsPerGroup ==
    Filtered =>
        /\ error = None
        /\ StrictlyAscending(groups)
        /\ Len(plots) = 3 * visited
        /\ \A i \in 1..visited :
              /\ plots[3 * i - 2].group = groups[i]
              /\ plots[3 * i - 1].group = groups[i]
              /\ plots[3 * i].group = groups[i]
              /\ plots[3 * i - 2].metric = "time"
              /\ plots[3 * i - 1].metric = "throughput"
              /\ plots[3 * i].metric = "image rate"
        /\ pc = "done" => visited = Len(groups)

-----------------------------------------------------------------------------
(* C13: the groups the plot loop visits are, when the data-type option or   *)
(* the groups option is set, the groups whose name ends with the data type  *)
(* and the groups named, as far as they have a record of an allowed         *)
(* backend, and all such groups when neither option is set: a data type     *)
(* that no group ends with leaves the named groups only.                    *)

C13_GroupsPlotted ==
    pc \in {"plotting", "done"} =>
        LET all_groups == Range(list_recordTable_groups(Imported).value)
            named == IF args.groups = None THEN {} ELSE Range(args.groups)
            wanted == IF args.data_type = None /\ args.groups = None
                      THEN all_groups
                      ELSE {g \in all_groups :
                               \/ args.data_type # None /\ Suffix3(g) = args.data_type
                               \/ g \in named}
        IN  Range(groups) =
                {Imported[i].group : i \in {j \in 1..Len(Imported) :
                                               /\ Imported[j].group \in wanted
                                               /\ BackendAllows(Imported[j])}}

-----------------------------------------------------------------------------
(* C14: with the file option and no directory option, main works on the     *)
(* records of the file named; with the directory option, on those of the    *)
(* directory import; selecting the input ends in no exception when the      *)
(* files are readable and well formed.                                      *)

C14_InputSelected ==
    /\ pc = "selected" /\ args.directory # None => results = Imported
    /\ pc # "main" /\ args.directory = None /\ args.file # None =>
          /\ error = None
          /\ pc = "selected" => results = read_celero_recordTable(NamedFile).output

====
